---- MODULE Spec2Model ----
(***************************************************************************)
(* Read-through cache of one upstream user profile (backend/services.py,   *)
(* backend/app.py, backend/database.py): the freshness decision of         *)
(* get_user, the upsert of upsert_user and the HTTP handlers calling them. *)
(*                                                                         *)
(* Granularity: one action is one round trip to a collaborator (the        *)
(* database or the upstream API) together with the local computation that  *)
(* follows it up to the next round trip.  Requests interleave between      *)
(* round trips, as they do when the service runs with several workers on   *)
(* one PostgreSQL database (READ COMMITTED: every statement sees what was  *)
(* committed before it).  A session flushes only inside commit(), so       *)
(* flush and commit are one step.                                          *)
(*                                                                         *)
(* Time is counted in minutes.  Of datetime.now() the model keeps that two *)
(* upserts never read the same instant (the clock has microseconds, and a  *)
(* database round trip lies between two readings): the reading that stamps *)
(* an upsert moves the clock on.                                           *)
(***************************************************************************)
EXTENDS Integers, Sequences, FiniteSets, TLC

(* ---- bounds of the model ---- *)
NumRequests == 2
MaxStarted == 4
MaxTime == 12

(* ---- program constants ---- *)
CACHE_DURATION_MINUTES == 10
USER_ID == 1
None == -1
SQL_NULL == "<NULL>"

Reqs == 1..NumRequests

VARIABLES store, now, req, started, pure
vars == <<store, now, req, started, pure>>

(* ---- database.User: a row of table users ---- *)
Columns == {"id", "name", "username", "email", "website", "company_name", "updated_at"}

NoUser ==
    [id |-> 0, name |-> "", username |-> "", email |-> "", website |-> "",
     company_name |-> "", updated_at |-> None]

(* ---- models.UserResponse ---- *)
NoResponse ==
    [name |-> "", username |-> "", email |-> "", website |-> "", companyName |-> "<none>"]

OrEmpty(s) == IF s = SQL_NULL \/ s = "" THEN "" ELSE s

\* the response with username and email taken from each other's column
UserResponse_swapped(user) ==
    [name |-> user.name, username |-> user.email, email |-> user.username,
     website |-> user.website, companyName |-> OrEmpty(user.company_name)]

UserResponse(user) ==
    [name |-> user.name, username |-> user.username, email |-> user.email,
     website |-> user.website, companyName |-> OrEmpty(user.company_name)]

(* ---- the upstream API: the JSON bodies it may serve, any of them at any ---- *)
(* ---- time (it is a service of its own, and the URL is configuration)   ---- *)
RequiredFields == {"id", "name", "username", "email", "website", "company"}

UpstreamBodies ==
    << [present |-> RequiredFields, id |-> 1, name |-> "Leanne Graham",
        username |-> "Bret", email |-> "Sincere@april.biz",
        website |-> "hildegard.org", company |-> {<<"name", "Romaguera-Crona">>}],
       [present |-> RequiredFields, id |-> 1, name |-> "Leanne G.",
        username |-> "Bret.G", email |-> "Sincere@april.biz",
        website |-> "http://hildegard.org", company |-> {<<"bs", "e-markets">>}],
       [present |-> RequiredFields, id |-> 1, name |-> "Leanne Graham",
        username |-> "Bret", email |-> "leanne@april.biz",
        website |-> "hildegard.org", company |-> {<<"name", "Romaguera-Crona">>}],
       [present |-> RequiredFields, id |-> 2, name |-> "Ervin Howell",
        username |-> "Bret", email |-> "Shanna@melissa.tv",
        website |-> "", company |-> {}],
       [present |-> RequiredFields \ {"company"}, id |-> 1, name |-> "Leanne Graham",
        username |-> "Bret", email |-> "Sincere@april.biz",
        website |-> "https://hildegard.org", company |-> {}] >>

\* models.UpstreamUserData: every declared field is required
Validates(body) == RequiredFields \subseteq body.present

BodyIds == 1..Len(UpstreamBodies)

\* is_cache_stale with the comparison off by one (>= for >)
is_cache_stale_ge(updated_at, t) ==
    IF updated_at = None
    THEN TRUE
    ELSE (t - updated_at) >= CACHE_DURATION_MINUTES

(* ---- services.UserService.is_cache_stale ---- *)
is_cache_stale(updated_at, t) ==
    IF updated_at = None
    THEN TRUE
    ELSE (t - updated_at) > CACHE_DURATION_MINUTES

(* ---- services.UserService.normalize_website ---- *)
StartsWith(s, p) == Len(s) >= Len(p) /\ SubSeq(s, 1, Len(p)) = p

\* normalize_website that knows the scheme http:// only
normalize_website_http_only(website) ==
    IF website = ""
    THEN ""
    ELSE IF StartsWith(website, "http://")
         THEN website
         ELSE "https://" \o website

\* normalize_website that looks for no scheme at all
normalize_website_always(website) ==
    IF website = "" THEN "" ELSE "https://" \o website

normalize_website(website) ==
    IF website = ""
    THEN ""
    ELSE IF StartsWith(website, "http://") \/ StartsWith(website, "https://")
         THEN website
         ELSE "https://" \o website

(* dict.get(key, default) on a JSON object held as a set of <<key, value>> *)
DictGet(d, key, default) ==
    IF \E p \in d : p[1] = key
    THEN (CHOOSE p \in d : p[1] = key)[2]
    ELSE default

(* services.py:44 *)
company_name_of(company) ==
    IF company # {} THEN DictGet(company, "name", "") ELSE ""

\* upsert_user that leaves updated_at unset
NormalizedRow_unstamped(data, current_time) ==
    [id |-> data.id, name |-> data.name, username |-> data.username,
     email |-> data.email, website |-> normalize_website(data.website),
     company_name |-> company_name_of(data.company), updated_at |-> None]

(* the User object upsert_user writes: services.py:43-45, 52-57, 64-72 *)
NormalizedRow(data, current_time) ==
    [id |-> data.id, name |-> data.name, username |-> data.username,
     email |-> data.email, website |-> normalize_website(data.website),
     company_name |-> company_name_of(data.company), updated_at |-> current_time]

(* ---- the table: db.query(User).filter(User.id == id).first() ---- *)
query_first(s, id) ==
    IF \E row \in s : row.id = id
    THEN CHOOSE row \in s : row.id = id
    ELSE NoUser

\* the table without its primary key
pk_conflict_off(s, row) == FALSE

(* database.py:15, primary_key=True *)
pk_conflict(s, row) == \E x \in s : x.id = row.id

(* database.py:17, unique=True *)
username_conflict(s, row) == \E x \in s : x.username = row.username

(* ---- app.get_user: the query parameter FastAPI binds to bypass_cache ---- *)
QueryStrings ==
    { {}, {<<"bypass_cache", "true">>}, {<<"bypass_cache", "false">>},
      {<<"bypassCache", "true">>} }

ParseBool(v) == v \in {"true", "1", "on", "yes"}

bypass_cache_param(q) ==
    IF \E p \in q : p[1] = "bypass_cache"
    THEN ParseBool(DictGet(q, "bypass_cache", "false"))
    ELSE FALSE

\* the read-path decision without the freshness check
cache_miss_no_stale(user, t, bypass_cache) ==
    user = NoUser \/ bypass_cache

\* the read-path decision without the bypass flag
cache_miss_no_bypass(user, t, bypass_cache) ==
    user = NoUser \/ is_cache_stale(user.updated_at, t)

(* ---- services.py:107, the read-path decision ---- *)
cache_miss(user, t, bypass_cache) ==
    user = NoUser \/ is_cache_stale(user.updated_at, t) \/ bypass_cache

(* ---- one HTTP request and its database session ---- *)
IdleReq ==
    [pc |-> "idle", method |-> "none", bypass_cache |-> FALSE,
     user |-> NoUser, data |-> 0, current_time |-> None,
     op |-> "none", obj |-> NoUser, dirty |-> {},
     status |-> 0, error |-> "", response |-> NoResponse,
     interfered |-> FALSE, fetches |-> 0, writes |-> 0]

NoPure == [fn |-> "none", updated_at |-> None, t |-> 0, result |-> FALSE]

Init ==
    /\ store = {}
    /\ now = 0
    /\ req = [r \in Reqs |-> IdleReq]
    /\ started = 0
    /\ pure = NoPure

\* the request is over: the handler has returned or raised, and get_db closes
\* the session (database.py:27-28), dropping what it had loaded and not committed
Finish(rec, status, error, response) ==
    [rec EXCEPT !.pc = "done", !.status = status, !.error = error,
                !.response = response, !.user = NoUser, !.current_time = None,
                !.op = "none", !.obj = NoUser, !.dirty = {}, !.interfered = FALSE]

\* app.py:86-87 and 97-98: any exception becomes HTTP 500
Fail(rec, err) == Finish(rec, 500, err, NoResponse)

\* a request is served in the lowest free slot: the slots have no identity
FreeSlot(r) ==
    /\ req[r].pc = "idle"
    /\ \A x \in Reqs : x < r => req[x].pc # "idle"

(* app.py:74-87 with services.py:104-107 and, on a hit, 112-118 *)
api_get_user(r, q) ==
    /\ FreeSlot(r)
    /\ started < MaxStarted
    /\ started' = started + 1
    /\ LET bypass == bypass_cache_param(q)
           user == query_first(store, USER_ID)
           base == [req[r] EXCEPT !.method = "GET", !.bypass_cache = bypass,
                                  !.user = user]
       IN  IF cache_miss(user, now, bypass)
           THEN req' = [req EXCEPT ![r] = [base EXCEPT !.pc = "fetch"]]
           ELSE req' = [req EXCEPT ![r] = Finish(base, 200, "", UserResponse(user))]
    /\ UNCHANGED <<store, now, pure>>

(* app.py:89-98 with services.py:120-122 *)
api_refresh_user(r) ==
    /\ FreeSlot(r)
    /\ started < MaxStarted
    /\ started' = started + 1
    /\ req' = [req EXCEPT ![r] = [@ EXCEPT !.method = "POST", !.pc = "fetch"]]
    /\ UNCHANGED <<store, now, pure>>

\* the failures httpx, json and pydantic raise inside fetch_from_upstream
UpstreamErrors == {"ConnectError", "HTTPStatusError", "JSONDecodeError", "ValidationError"}

\* what the upstream round trip may come to
FetchOutcomes == {"ok", "ConnectError", "HTTPStatusError", "JSONDecodeError"}

\* fetch_from_upstream of a service that drops the cached row when the fetch fails
fetch_from_upstream_evict(r, outcome, b) ==
    /\ req[r].pc = "fetch"
    /\ now < MaxTime
    /\ LET body == UpstreamBodies[b]
           rec == [req[r] EXCEPT !.fetches = @ + 1]
       IN  IF outcome # "ok" \/ ~Validates(body)
           THEN /\ req' = [req EXCEPT ![r] =
                              Fail(rec, IF outcome # "ok" THEN outcome ELSE "ValidationError")]
                /\ now' = now
                /\ store' = {x \in store : x.id # USER_ID}
           ELSE /\ req' = [req EXCEPT ![r] =
                              [rec EXCEPT !.pc = "query", !.data = b,
                                          !.current_time = now]]
                /\ now' = now + 1
                /\ store' = store
    /\ UNCHANGED <<started, pure>>

\* services.py:23-29 and, when the fetch succeeds, the start of upsert_user
\* (services.py:43-45): normalisation and the reading of the clock
fetch_from_upstream(r, outcome, b) ==
    /\ req[r].pc = "fetch"
    /\ now < MaxTime
    /\ LET body == UpstreamBodies[b]
           rec == [req[r] EXCEPT !.fetches = @ + 1]
       IN  IF outcome # "ok"
           THEN /\ req' = [req EXCEPT ![r] = Fail(rec, outcome)]
                /\ now' = now
           ELSE IF ~Validates(body)
           THEN /\ req' = [req EXCEPT ![r] = Fail(rec, "ValidationError")]
                /\ now' = now
           ELSE /\ req' = [req EXCEPT ![r] =
                              [rec EXCEPT !.pc = "query", !.data = b,
                                          !.current_time = now]]
                /\ now' = now + 1
    /\ UNCHANGED <<store, started, pure>>

\* the update path without the assignment to updated_at (services.py:57)
dirty_columns_no_timestamp(loaded, assigned) ==
    {c \in Columns \ {"id", "updated_at"} : assigned[c] # loaded[c]}

\* the attributes of a loaded object that assignment changed: only these are
\* part of the UPDATE the session flushes
dirty_columns(loaded, assigned) ==
    {c \in Columns \ {"id"} : assigned[c] # loaded[c]}

\* upsert_user with the lookup by username in place of the lookup by id
upsert_user_query_by_username(r) ==
    /\ req[r].pc = "query"
    /\ LET data == UpstreamBodies[req[r].data]
           found == IF \E row \in store : row.username = data.username
                    THEN CHOOSE row \in store : row.username = data.username
                    ELSE NoUser
           new_user == NormalizedRow(data, req[r].current_time)
       IN  IF found # NoUser
           THEN req' = [req EXCEPT ![r] =
                           [@ EXCEPT !.pc = "commit", !.op = "update", !.obj = new_user,
                                     !.dirty = dirty_columns(found, new_user)]]
           ELSE req' = [req EXCEPT ![r] =
                           [@ EXCEPT !.pc = "commit", !.op = "insert", !.obj = new_user]]
    /\ UNCHANGED <<store, now, started, pure>>

\* services.py:48-57 and 64-74: the lookup by id, then the assignments to the
\* object found or the construction of a new one.  A row this session has
\* already loaded (get_user, services.py:104) is the same object in the
\* session's identity map, with the attributes as they were first loaded.
upsert_user_query(r) ==
    /\ req[r].pc = "query"
    /\ LET data == UpstreamBodies[req[r].data]
           found == query_first(store, data.id)
           existing_user == IF req[r].user.id = found.id THEN req[r].user ELSE found
           new_user == NormalizedRow(data, req[r].current_time)
       IN  IF found # NoUser
           THEN req' = [req EXCEPT ![r] =
                           [@ EXCEPT !.pc = "commit", !.op = "update", !.obj = new_user,
                                     !.dirty = dirty_columns(existing_user, new_user)]]
           ELSE req' = [req EXCEPT ![r] =
                           [@ EXCEPT !.pc = "commit", !.op = "insert", !.obj = new_user]]
    /\ UNCHANGED <<store, now, started, pure>>

\* bookkeeping of a commit by r: r goes on to refresh its object, and every
\* other request under way has now run concurrently with a write
InFlight == {"fetch", "query", "commit", "refresh", "delete"}

Committed(r) ==
    [x \in Reqs |->
        IF x = r
        THEN [req[x] EXCEPT !.pc = "refresh", !.writes = @ + 1]
        ELSE IF req[x].pc \in InFlight
             THEN [req[x] EXCEPT !.interfered = TRUE]
             ELSE req[x]]

\* the row an UPDATE of the dirty columns leaves
updated_row(cur, obj, dirty) ==
    [c \in Columns |-> IF c \in dirty THEN obj[c] ELSE cur[c]]

\* services.py:59, self.db.commit() after the assignments: UPDATE ... WHERE id
commit_update(r) ==
    /\ req[r].pc = "commit"
    /\ req[r].op = "update"
    /\ LET cur == query_first(store, req[r].obj.id)
           row == updated_row(cur, req[r].obj, req[r].dirty)
       IN  IF cur = NoUser
           THEN /\ req' = [req EXCEPT ![r] = Fail(@, "StaleDataError")]
                /\ store' = store
           ELSE IF username_conflict(store \ {cur}, row)
           THEN /\ req' = [req EXCEPT ![r] = Fail(@, "IntegrityError users_username_key")]
                /\ store' = store
           ELSE /\ req' = Committed(r)
                /\ store' = (store \ {cur}) \cup {row}
    /\ UNCHANGED <<now, started, pure>>

\* services.py:74-75, self.db.add(new_user); self.db.commit(): INSERT
commit_insert(r) ==
    /\ req[r].pc = "commit"
    /\ req[r].op = "insert"
    /\ IF pk_conflict(store, req[r].obj)
       THEN /\ req' = [req EXCEPT ![r] = Fail(@, "IntegrityError users_pkey")]
            /\ store' = store
       ELSE IF username_conflict(store, req[r].obj)
       THEN /\ req' = [req EXCEPT ![r] = Fail(@, "IntegrityError users_username_key")]
            /\ store' = store
       ELSE /\ req' = Committed(r)
            /\ store' = store \cup {req[r].obj}
    /\ UNCHANGED <<now, started, pure>>

\* services.py:60-61 and 76-77, self.db.refresh(...), then the response of
\* get_user (112-118) or refresh_user (125-131)
upsert_user_refresh(r) ==
    /\ req[r].pc = "refresh"
    /\ LET cur == query_first(store, req[r].obj.id)
       IN  IF cur = NoUser
           THEN req' = [req EXCEPT ![r] = Fail(@, "InvalidRequestError")]
           ELSE req' = [req EXCEPT ![r] = Finish(@, 200, "", UserResponse(cur))]
    /\ UNCHANGED <<store, now, started, pure>>

\* the ids GET and DELETE /api/users/{user_id} are called with
UserIds == {1, 2}

\* app.py:177-190 with services.py:145-148: the lookup of delete_user
api_delete_user(r, user_id) ==
    /\ FreeSlot(r)
    /\ started < MaxStarted
    /\ started' = started + 1
    /\ LET user == query_first(store, user_id)
       IN  IF user = NoUser
           THEN req' = [req EXCEPT ![r] =
                           Finish([@ EXCEPT !.method = "DELETE"], 404, "", NoResponse)]
           ELSE req' = [req EXCEPT ![r] =
                           [@ EXCEPT !.method = "DELETE", !.pc = "delete", !.user = user]]
    /\ UNCHANGED <<store, now, pure>>

\* delete_user that empties the table
delete_user_commit_all(r) ==
    /\ req[r].pc = "delete"
    /\ store' = {}
    /\ req' = [x \in Reqs |->
                  IF x = r
                  THEN Finish([req[x] EXCEPT !.writes = @ + 1], 200, "", NoResponse)
                  ELSE IF req[x].pc \in InFlight
                       THEN [req[x] EXCEPT !.interfered = TRUE]
                       ELSE req[x]]
    /\ UNCHANGED <<now, started, pure>>

\* services.py:149-151: DELETE ... WHERE id, commit
delete_user_commit(r) ==
    /\ req[r].pc = "delete"
    /\ store' = {x \in store : x.id # req[r].user.id}
    /\ req' = [x \in Reqs |->
                  IF x = r
                  THEN Finish([req[x] EXCEPT !.writes = IF store' # store THEN @ + 1 ELSE @],
                              200, "", NoResponse)
                  ELSE IF req[x].pc \in InFlight /\ store' # store
                       THEN [req[x] EXCEPT !.interfered = TRUE]
                       ELSE req[x]]
    /\ UNCHANGED <<now, started, pure>>

\* app.py:156-175 with services.py:133-135.  The route /api/users/1 of get_user
\* is registered first (app.py:74), so this handler never sees user_id 1.
api_get_user_by_id(r, user_id) ==
    /\ FreeSlot(r)
    /\ started < MaxStarted
    /\ user_id # USER_ID
    /\ started' = started + 1
    /\ LET user == query_first(store, user_id)
           rec == [req[r] EXCEPT !.method = "GET_BY_ID"]
       IN  IF user = NoUser
           THEN req' = [req EXCEPT ![r] = Finish(rec, 404, "", NoResponse)]
           ELSE req' = [req EXCEPT ![r] = Finish(rec, 200, "", UserResponse(user))]
    /\ UNCHANGED <<store, now, pure>>

\* the response has been sent and the session closed (database.py:23-28)
close_session(r) ==
    /\ req[r].pc = "done"
    /\ req' = [req EXCEPT ![r] = IdleReq]
    /\ UNCHANGED <<store, now, started, pure>>

\* time passes: by as much as brings a row just stamped to the age of the
\* TTL exactly, or past it
TickSteps == {CACHE_DURATION_MINUTES - 1, CACHE_DURATION_MINUTES}

Tick(d) ==
    /\ now + d <= MaxTime
    /\ now' = now + d
    /\ UNCHANGED <<store, req, started, pure>>

Next ==
    \/ \E r \in Reqs : \E q \in QueryStrings : api_get_user(r, q)
    \/ \E r \in Reqs : api_refresh_user(r)
    \/ \E r \in Reqs : \E o \in FetchOutcomes : \E b \in BodyIds :
          fetch_from_upstream(r, o, b)
    \/ \E r \in Reqs : upsert_user_query(r)
    \/ \E r \in Reqs : commit_update(r)
    \/ \E r \in Reqs : commit_insert(r)
    \/ \E r \in Reqs : upsert_user_refresh(r)
    \/ \E r \in Reqs : \E u \in UserIds : api_delete_user(r, u)
    \/ \E r \in Reqs : delete_user_commit(r)
    \/ \E r \in Reqs : \E u \in UserIds : api_get_user_by_id(r, u)
    \/ \E r \in Reqs : close_session(r)
    \/ \E d \in TickSteps : Tick(d)

Spec == Init /\ [][Next]_vars

(* ---- is_cache_stale on its own: every input, one application ---- *)
InitStale ==
    /\ store = {}
    /\ now = 0
    /\ req = [r \in Reqs |-> IdleReq]
    /\ started = 0
    /\ pure \in {[fn |-> "is_cache_stale", updated_at |-> u, t |-> t, result |-> FALSE] :
                    u \in {None} \cup (0..MaxTime), t \in 0..MaxTime}

call_is_cache_stale ==
    /\ pure.fn = "is_cache_stale"
    /\ pure' = [pure EXCEPT !.fn = "returned",
                            !.result = is_cache_stale(pure.updated_at, pure.t)]
    /\ UNCHANGED <<store, now, req, started>>

NextStale == call_is_cache_stale

SpecStale == InitStale /\ [][NextStale]_vars

(* ---- normalize_website on its own: every input, applied once and then ---- *)
(* ---- once more to its own result                                       ---- *)
WebsitePrefixes ==
    {"", "http://", "https://", "HTTP://", "Https://", "http:/", "https:/",
     "http:", "ftp://", "//", "www.", " https://"}

WebsiteHosts == {"", "example.com", "hildegard.org", "h", "x/http://y"}

Websites == {p \o h : p \in WebsitePrefixes, h \in WebsiteHosts}

InitWebsite ==
    /\ store = {}
    /\ now = 0
    /\ req = [r \in Reqs |-> IdleReq]
    /\ started = 0
    /\ pure \in {[fn |-> "normalize_website", website |-> w, result |-> "", again |-> ""] :
                    w \in Websites}

call_normalize_website ==
    /\ pure.fn = "normalize_website"
    /\ pure' = [pure EXCEPT !.fn = "returned",
                            !.result = normalize_website(pure.website)]
    /\ UNCHANGED <<store, now, req, started>>

call_normalize_website_again ==
    /\ pure.fn = "returned"
    /\ pure' = [pure EXCEPT !.fn = "returned twice",
                            !.again = normalize_website(pure.result)]
    /\ UNCHANGED <<store, now, req, started>>

NextWebsite ==
    \/ call_normalize_website
    \/ call_normalize_website_again

SpecWebsite == InitWebsite /\ [][NextWebsite]_vars

(* ---- get_stale_users on its own: every table of the two rows with their ---- *)
(* ---- stamps in the past, at every time                                  ---- *)

\* get_stale_users with the cutoff included (<= for <)
get_stale_users_le(s, t) ==
    LET cutoff_time == t - CACHE_DURATION_MINUTES
    IN  {row \in s : row.updated_at <= cutoff_time}

\* services.py:165-168
get_stale_users(s, t) ==
    LET cutoff_time == t - CACHE_DURATION_MINUTES
    IN  {row \in s : row.updated_at < cutoff_time}

\* the tables get_stale_users may find: the row of user 1 alone, or with it
\* the row of user 2, each stamped at or before the time of the listing
ListedTables(t) ==
    LET rows1 == {NormalizedRow(UpstreamBodies[2], u) : u \in 0..t}
        rows2 == {NormalizedRow(UpstreamBodies[4], u) : u \in 0..t}
    IN  {{x} : x \in rows1} \cup {{x, y} : x \in rows1, y \in rows2}

InitListing ==
    /\ now \in 0..MaxTime
    /\ store \in ListedTables(now)
    /\ req = [r \in Reqs |-> IdleReq]
    /\ started = 0
    /\ pure = [fn |-> "get_stale_users", result |-> {}]

\* app.py:136-154 with services.py:165-168: the query, no write
call_get_stale_users ==
    /\ pure.fn = "get_stale_users"
    /\ pure' = [pure EXCEPT !.fn = "returned", !.result = get_stale_users(store, now)]
    /\ UNCHANGED <<store, now, req, started>>

NextListing == call_get_stale_users

SpecListing == InitListing /\ [][NextListing]_vars

(* ---- run_migrations (app.py:18-54), run once when the module is loaded ---- *)
max_retries == 5
retry_delay == 2

\* what subprocess.run(..., check=True) may come to: the exit status 0 of
\* alembic, a non-zero exit status, or an error of starting the process
MigrationErrors == {"CalledProcessError", "FileNotFoundError", "PermissionError"}

MigrationOutcomes == {"ok"} \cup MigrationErrors

InitMigrations ==
    /\ store = {}
    /\ now = 0
    /\ req = [r \in Reqs |-> IdleReq]
    /\ started = 0
    /\ pure = [fn |-> "run_migrations", pc |-> "attempt", attempt |-> 0,
               failures |-> <<>>, slept |-> 0, result |-> "none", raised |-> <<>>]

\* run_migrations that sleeps after the last failure too
migration_attempt_no_raise(outcome) ==
    /\ pure.fn = "run_migrations"
    /\ pure.pc = "attempt"
    /\ IF pure.attempt >= max_retries
       THEN pure' = [pure EXCEPT !.pc = "returned", !.result = "False"]
       ELSE IF outcome = "ok"
       THEN pure' = [pure EXCEPT !.pc = "returned", !.result = "True"]
       ELSE pure' = [pure EXCEPT !.pc = "sleep",
                                 !.failures = Append(@, outcome)]
    /\ UNCHANGED <<store, now, req, started>>

\* app.py:23-52: one turn of the loop, up to return, raise or time.sleep;
\* app.py:54 when range(max_retries) is used up
migration_attempt(outcome) ==
    /\ pure.fn = "run_migrations"
    /\ pure.pc = "attempt"
    /\ IF pure.attempt >= max_retries
       THEN pure' = [pure EXCEPT !.pc = "returned", !.result = "False"]
       ELSE IF outcome = "ok"
       THEN pure' = [pure EXCEPT !.pc = "returned", !.result = "True"]
       ELSE IF pure.attempt < max_retries - 1
       THEN pure' = [pure EXCEPT !.pc = "sleep",
                                 !.failures = Append(@, outcome)]
       ELSE pure' = [pure EXCEPT !.pc = "raised",
                                 !.failures = Append(@, outcome),
                                 !.raised = <<outcome, pure.attempt + 1>>]
    /\ UNCHANGED <<store, now, req, started>>

\* app.py:41 and 49, time.sleep(retry_delay), then the next turn of the loop
migration_retry ==
    /\ pure.fn = "run_migrations"
    /\ pure.pc = "sleep"
    /\ pure' = [pure EXCEPT !.pc = "attempt", !.attempt = @ + 1,
                            !.slept = @ + retry_delay]
    /\ UNCHANGED <<store, now, req, started>>

NextMigrations ==
    \/ \E o \in MigrationOutcomes : migration_attempt(o)
    \/ migration_retry

\* every subprocess.run returns and every time.sleep ends
SpecMigrations ==
    InitMigrations /\ [][NextMigrations]_vars /\ WF_vars(NextMigrations)

(***************************************************************************)
(* The claims                                                              *)
(***************************************************************************)

\* the non-timestamp columns of a row
NonTs(row) ==
    [c \in Columns \ {"updated_at"} |-> row[c]]

\* C1: get serves the stored row without an upstream fetch exactly when a row
\* for the id exists, that row is not stale and no bypass was asked for; in
\* every other case the request goes to the upstream fetch, and an answer
\* that is not a cache hit comes after one fetch and one upsert.
C1_ReadPathDecision ==
    [][\A r \in Reqs :
        /\ (req[r].pc = "idle" /\ req'[r].method = "GET") =>
              LET user == query_first(store, USER_ID)
                  serve == /\ user # NoUser
                           /\ ~((now - user.updated_at) > CACHE_DURATION_MINUTES)
                           /\ ~req'[r].bypass_cache
              IN  IF serve
                  THEN /\ req'[r].pc = "done"
                       /\ req'[r].status = 200
                       /\ req'[r].fetches = 0
                       /\ req'[r].writes = 0
                  ELSE /\ req'[r].pc = "fetch"
                       /\ req'[r].fetches = 0
        /\ (/\ req[r].method = "GET"
            /\ req[r].pc \notin {"idle", "done"}
            /\ req'[r].pc = "done"
            /\ req'[r].status = 200) =>
              (req'[r].fetches = 1 /\ req'[r].writes = 1)
      ]_vars

\* C1 witness: one get answered from the store and one get with bypass
\* answered after a fetch
C1_Witness ==
    \E r1, r2 \in Reqs :
        /\ req[r1].method = "GET" /\ req[r1].pc = "done" /\ req[r1].status = 200
        /\ req[r1].fetches = 0
        /\ req[r2].method = "GET" /\ req[r2].pc = "done" /\ req[r2].status = 200
        /\ req[r2].bypass_cache /\ req[r2].fetches = 1

\* C2: is_cache_stale is true for an absent timestamp, and for a present one
\* exactly when now - updated_at is strictly greater than the TTL: an age equal
\* to the TTL is fresh, any greater age is stale.
C2_FreshnessBoundary ==
    pure.fn = "returned" =>
        /\ (pure.updated_at = None => pure.result)
        /\ (pure.updated_at # None =>
              (pure.result <=> (pure.t - pure.updated_at > CACHE_DURATION_MINUTES)))
        /\ ((pure.updated_at # None /\ pure.t = pure.updated_at + CACHE_DURATION_MINUTES)
              => ~pure.result)
        /\ ((pure.updated_at # None /\ pure.t > pure.updated_at + CACHE_DURATION_MINUTES)
              => pure.result)

\* C2 witness: a timestamp whose age is exactly the TTL was judged fresh
C2_Witness ==
    /\ pure.fn = "returned"
    /\ pure.updated_at # None
    /\ pure.t = pure.updated_at + CACHE_DURATION_MINUTES
    /\ ~pure.result

\* C3: an insert that finds the id already inserted by a concurrent request is
\* resolved to an update and the request succeeds; it is not answered with 500.
C3_DuplicateInsertResolved ==
    [][\A r \in Reqs :
        (/\ req[r].pc = "commit"
         /\ req[r].op = "insert"
         /\ pk_conflict(store, req[r].obj)
         /\ req'[r].pc # "commit") =>
            (req'[r].status # 500 /\ req'[r].pc = "refresh")
      ]_vars

\* C4: the table never holds two rows with one id, nor two rows with one
\* username.
C4_OneRowPerId ==
    \A x, y \in store :
        (x.id = y.id \/ x.username = y.username) => x = y

\* C4 witness: two requests raced to insert the same id; one row is there
C4_Witness ==
    /\ \E r \in Reqs : req[r].error = "IntegrityError users_pkey"
    /\ Cardinality({x \in store : x.id = USER_ID}) = 1
    /\ \E r \in Reqs : req[r].pc = "done" /\ req[r].status = 200 /\ req[r].writes = 1

\* C5: GET /api/users/1?bypassCache=true fetches from upstream even when a
\* fresh row is stored.
C5_BypassCacheQueryForcesFetch ==
    [][\A r \in Reqs : \A q \in QueryStrings :
        (api_get_user(r, q) /\ <<"bypassCache", "true">> \in q) =>
            req'[r].pc = "fetch"
      ]_vars

\* C6: when the upstream fetch fails, the request fails and has written
\* nothing: the table is as it was.
C6_FetchFailureLeavesStore ==
    [][\A r \in Reqs :
        (req[r].pc = "fetch" /\ req'[r].error \in UpstreamErrors) =>
            /\ req'[r].pc = "done"
            /\ req'[r].status = 500
            /\ req[r].writes = 0
            /\ req'[r].writes = 0
            /\ store' = store
      ]_vars

\* C6 witness: a request failed in the fetch while a row was stored
C6_Witness ==
    \E r \in Reqs :
        /\ req[r].pc = "done"
        /\ req[r].error \in UpstreamErrors
        /\ req[r].status = 500
        /\ store # {}

\* C7: an upsert that follows, with nothing running beside it, an upsert of
\* the same id with the same fields leaves one row for the id, with the same
\* non-timestamp columns and a later updated_at.
C7_UpsertConvergent ==
    [][\A r \in Reqs :
        LET id == req[r].obj.id
            before == query_first(store, id)
            after == query_first(store', id)
        IN  (/\ req[r].pc = "commit"
             /\ req'[r].pc = "refresh"
             /\ ~req[r].interfered
             /\ before # NoUser
             /\ NonTs(before) = NonTs(req[r].obj)) =>
                /\ Cardinality({x \in store' : x.id = id}) = 1
                /\ Cardinality(store') = Cardinality(store)
                /\ NonTs(after) = NonTs(before)
                /\ after.updated_at > before.updated_at
      ]_vars

\* C7 witness: an update, alone, that found every column but updated_at as it
\* was about to write it
C7_Witness ==
    \E r \in Reqs :
        /\ req[r].pc = "refresh"
        /\ req[r].op = "update"
        /\ req[r].dirty = {"updated_at"}
        /\ ~req[r].interfered
        /\ query_first(store, req[r].obj.id) = req[r].obj

\* C8: a cache hit fetches nothing, leaves the table as it is and answers
\* with the columns of the stored row.
C8_CacheHitFrame ==
    [][\A r \in Reqs :
        LET user == query_first(store, USER_ID)
        IN  (/\ req[r].pc = "idle"
             /\ req'[r].method = "GET"
             /\ user # NoUser
             /\ (now - user.updated_at) <= CACHE_DURATION_MINUTES
             /\ ~req'[r].bypass_cache) =>
                /\ store' = store
                /\ req'[r].pc = "done"
                /\ req'[r].fetches = 0
                /\ req'[r].response =
                      [name |-> user.name, username |-> user.username,
                       email |-> user.email, website |-> user.website,
                       companyName |-> user.company_name]
      ]_vars

\* C8 witness: a get answered from the stored row
C8_Witness ==
    \E r \in Reqs :
        /\ req[r].method = "GET" /\ req[r].pc = "done" /\ req[r].status = 200
        /\ req[r].fetches = 0 /\ req[r].writes = 0
        /\ store # {}
        /\ req[r].response.username = query_first(store, USER_ID).username

\* C9: a successful get without bypass that found no row for the requested id
\* leaves a row with that id, stamped with the time of its upsert.
C9_MissLeavesRowForRequestedId ==
    [][\A r \in Reqs :
        (/\ req[r].method = "GET"
         /\ ~req[r].bypass_cache
         /\ req[r].user = NoUser
         /\ req[r].pc = "commit"
         /\ req'[r].pc = "refresh") =>
            \E row \in store' :
                row.id = USER_ID /\ row.updated_at = req[r].current_time
      ]_vars

\* C10: refresh and get with bypass do the same: one fetch and one upsert,
\* the same table afterwards and the same response, both a function of the
\* table before, the body fetched and the time alone.
Bypassing(rec) ==
    rec.method = "POST" \/ (rec.method = "GET" /\ rec.bypass_cache)

C10_RefreshEqualsGetBypass ==
    [][\A r \in Reqs :
        LET data == UpstreamBodies[req[r].data]
            row == NormalizedRow(data, req[r].current_time)
        IN  Bypassing(req'[r]) =>
            /\ (req[r].pc = "commit" /\ req'[r].pc = "refresh" /\ ~req[r].interfered) =>
                  store' = {x \in store : x.id # data.id} \cup {row}
            /\ (req[r].pc = "refresh" /\ req'[r].status = 200 /\ ~req[r].interfered) =>
                  req'[r].response = UserResponse(row)
            /\ (req[r].pc # "done" /\ req'[r].pc = "done" /\ req'[r].status = 200) =>
                  (req'[r].fetches = 1 /\ req'[r].writes = 1)
      ]_vars

\* C10 witness: a refresh and a get with bypass, of the same body, answered alike
C10_Witness ==
    \E r1, r2 \in Reqs :
        /\ req[r1].method = "POST" /\ req[r1].pc = "done" /\ req[r1].status = 200
        /\ req[r2].method = "GET" /\ req[r2].bypass_cache
        /\ req[r2].pc = "done" /\ req[r2].status = 200
        /\ req[r1].data = req[r2].data
        /\ req[r1].response = req[r2].response
        /\ req[r1].fetches = 1 /\ req[r2].fetches = 1

\* C11: normalize_website maps "" to "", returns a website that starts with
\* http:// or https:// as it is, and returns https:// followed by the input
\* for every other website; example.com becomes https://example.com.
HasScheme(w) ==
    \/ (Len(w) >= 7 /\ SubSeq(w, 1, 7) = "http://")
    \/ (Len(w) >= 8 /\ SubSeq(w, 1, 8) = "https://")

C11_WebsiteNormalization ==
    pure.fn \in {"returned", "returned twice"} =>
        /\ (pure.website = "" => pure.result = "")
        /\ ((pure.website # "" /\ HasScheme(pure.website)) => pure.result = pure.website)
        /\ ((pure.website # "" /\ ~HasScheme(pure.website)) =>
              /\ Len(pure.result) = Len(pure.website) + 8
              /\ SubSeq(pure.result, 1, 8) = "https://"
              /\ SubSeq(pure.result, 9, Len(pure.result)) = pure.website)
        /\ (pure.website = "example.com" => pure.result = "https://example.com")
        /\ (pure.website = "http://example.com" => pure.result = "http://example.com")

\* C11 witness: a website without scheme was given https://
C11_Witness ==
    /\ pure.fn = "returned"
    /\ pure.website = "example.com"
    /\ pure.result = "https://example.com"

\* C12: normalize_website is idempotent: applied to its own result it returns
\* that result.
C12_WebsiteIdempotent ==
    pure.fn = "returned twice" => pure.again = pure.result

\* C12 witness: a website that the first application changed, normalized twice
C12_Witness ==
    /\ pure.fn = "returned twice"
    /\ pure.result # pure.website
    /\ pure.again = pure.result

\* C13: an upstream body without a company object, or with a company object
\* that has no name, is stored with the empty string as company name, and
\* every response of get and refresh carries companyName as a string.
C13_CompanyNameNeverMissing ==
    [][\A r \in Reqs :
        /\ \A b \in BodyIds :
              LET body == UpstreamBodies[b]
              IN  (/\ fetch_from_upstream(r, "ok", b)
                   /\ \/ "company" \notin body.present
                      \/ ~(\E p \in body.company : p[1] = "name")) =>
                      /\ req'[r].pc = "query"
                      /\ NormalizedRow(UpstreamBodies[req'[r].data],
                                       req'[r].current_time).company_name = ""
        /\ (req[r].pc # "done" /\ req'[r].pc = "done" /\ req'[r].status = 200
              /\ req'[r].method \in {"GET", "POST"}) =>
              req'[r].response.companyName \notin {SQL_NULL, NoResponse.companyName}
      ]_vars

\* C14: no stored row is without updated_at, and a successful upsert sets the
\* updated_at of the row of its id once, in its one commit, to the time the
\* upsert read (services.py:45); nothing else of get or refresh touches the
\* table.
UpsertCommits(r) == req[r].pc = "commit" /\ req'[r].pc = "refresh"

C14_TimestampSetOncePerUpsert ==
    [][/\ \A row \in store \cup store' : row.updated_at # None /\ row.updated_at >= 0
       /\ \A r \in Reqs :
            UpsertCommits(r) =>
                LET id == req[r].obj.id
                IN  /\ req[r].current_time # None
                    /\ query_first(store', id).updated_at = req[r].current_time
                    /\ {x \in store' : x.id # id} = {x \in store : x.id # id}
                    /\ req[r].writes = 0
                    /\ req'[r].writes = 1
       /\ (store' # store) =>
            \E r \in Reqs : UpsertCommits(r) \/ req[r].pc = "delete"
      ]_vars

\* C14 witness: an update has just stamped a row that had an earlier stamp
C14_Witness ==
    \E r \in Reqs :
        /\ req[r].pc = "refresh"
        /\ req[r].op = "update"
        /\ req[r].current_time > 0
        /\ "updated_at" \in req[r].dirty
        /\ query_first(store, req[r].obj.id).updated_at = req[r].current_time

\* C15: the updated_at of a row only advances: no commit of an upsert puts an
\* earlier updated_at in the place of the one stored.
C15_TimestampAdvances ==
    [][\A r \in Reqs :
        LET id == req[r].obj.id
            before == query_first(store, id)
        IN  (UpsertCommits(r) /\ before # NoUser) =>
                query_first(store', id).updated_at >= before.updated_at
      ]_vars

\* C16: every stored row is, in all its columns but the timestamp, the
\* normalized form of one upstream body: no row holds columns of two
\* different upserts, and no failed request leaves a row half written.
C16_RowOfOnePayload ==
    \A row \in store :
        \E b \in BodyIds :
            /\ Validates(UpstreamBodies[b])
            /\ NonTs(row) = NonTs(NormalizedRow(UpstreamBodies[b], row.updated_at))

\* C17: upsert finds the row by id alone.  When a row with the id of the body
\* is stored, whatever its username and other columns, the upsert is an
\* update: its commit leaves the row under the same id and the number of rows
\* as it was.  The upsert is an insert only when no row has that id, and an
\* insert is committed only when none has it.
C17_LookupById ==
    [][\A r \in Reqs :
        /\ (req[r].pc = "query" /\ req'[r].pc = "commit") =>
              LET id == UpstreamBodies[req[r].data].id
              IN  /\ req'[r].obj.id = id
                  /\ req'[r].op = IF \E row \in store : row.id = id
                                  THEN "update" ELSE "insert"
        /\ (UpsertCommits(r) /\ req[r].op = "update") =>
              LET id == req[r].obj.id
              IN  /\ \E row \in store : row.id = id
                  /\ Cardinality({row \in store' : row.id = id}) = 1
                  /\ Cardinality(store') = Cardinality(store)
                  /\ {row.id : row \in store'} = {row.id : row \in store}
                  /\ \A c \in req[r].dirty :
                        query_first(store', id)[c] = req[r].obj[c]
        /\ (UpsertCommits(r) /\ req[r].op = "insert") =>
              /\ ~(\E row \in store : row.id = req[r].obj.id)
              /\ store' = store \cup {req[r].obj}
      ]_vars

\* C17 witness: an update has given the row of its id another username
C17_Witness ==
    \E r \in Reqs :
        /\ req[r].pc = "refresh"
        /\ req[r].op = "update"
        /\ "username" \in req[r].dirty
        /\ query_first(store, req[r].obj.id).username = req[r].obj.username
        /\ Cardinality(store) = 1

\* C18: an upsert of a username that a row with another id holds fails, and
\* the failed request leaves the table as it was: every row with the columns
\* and the updated_at it had, and no row added.
C18_UsernameCollisionFails ==
    [][\A r \in Reqs :
        (/\ req[r].pc = "commit"
         /\ req'[r].pc # "commit"
         /\ \E x \in store : x.username = req[r].obj.username /\ x.id # req[r].obj.id) =>
            /\ req'[r].pc = "done"
            /\ req'[r].status = 500
            /\ store' = store
      ]_vars

\* C19: the view a request sends after its upsert holds the values the request
\* wrote itself, the normalized form of the body it fetched, whatever other
\* requests commit meanwhile.
C19_ResponseIsOwnWrite ==
    [][\A r \in Reqs :
        (req[r].pc = "refresh" /\ req'[r].pc = "done" /\ req'[r].status = 200) =>
            req'[r].response =
                UserResponse(NormalizedRow(UpstreamBodies[req[r].data],
                                           req[r].current_time))
      ]_vars

\* C20: a lookup or a delete by an id that has no row answers 404, not 500,
\* and leaves the table as it is; a lookup that finds the row answers with
\* it; a delete of an id that has a row removes that row and no other.
C20_NotFoundAndDelete ==
    [][\A r \in Reqs :
        /\ \A u \in UserIds :
              api_delete_user(r, u) =>
                  /\ store' = store
                  /\ IF \E row \in store : row.id = u
                     THEN req'[r].pc = "delete" /\ req'[r].user.id = u
                     ELSE req'[r].pc = "done" /\ req'[r].status = 404
        /\ \A u \in UserIds :
              api_get_user_by_id(r, u) =>
                  /\ store' = store
                  /\ req'[r].pc = "done"
                  /\ IF \E row \in store : row.id = u
                     THEN /\ req'[r].status = 200
                          /\ req'[r].response.username = query_first(store, u).username
                     ELSE req'[r].status = 404
        /\ (req[r].pc = "delete" /\ req'[r].pc = "done") =>
              /\ req'[r].status = 200
              /\ ~(\E row \in store' : row.id = req[r].user.id)
              /\ \A row \in store : row.id # req[r].user.id => row \in store'
              /\ store' \subseteq store
      ]_vars

\* C20 witness: of two rows a delete has removed its own and left the other,
\* and another delete has found no row
C20_Witness ==
    \E r1, r2 \in Reqs :
        /\ req[r1].method = "DELETE" /\ req[r1].pc = "done"
        /\ req[r1].status = 200 /\ req[r1].writes = 1
        /\ store # {}
        /\ req[r2].method = "DELETE" /\ req[r2].pc = "done" /\ req[r2].status = 404

\* C21: when two refreshes of one id, under way together, have fetched
\* different bodies and both have committed, the stored row holds the data of
\* the one that fetched later.
C21_LaterFetchWins ==
    \A r1, r2 \in Reqs :
        (/\ req[r1].method = "POST" /\ req[r2].method = "POST"
         /\ req[r1].pc = "refresh" /\ req[r2].pc = "refresh"
         /\ req[r1].obj.id = req[r2].obj.id
         /\ req[r1].data # req[r2].data
         /\ req[r1].current_time < req[r2].current_time) =>
            NonTs(query_first(store, req[r2].obj.id)) = NonTs(req[r2].obj)

\* C22: get_stale_users lists the stored rows that is_cache_stale, asked at
\* the same time, calls stale, and no other: a row whose age is the TTL
\* exactly is not listed, an older one is.
C22_StaleListingAgrees ==
    pure.fn = "returned" =>
        /\ pure.result \subseteq store
        /\ \A row \in store :
              /\ (row \in pure.result) <=> is_cache_stale(row.updated_at, now)
              /\ (now - row.updated_at = CACHE_DURATION_MINUTES) => row \notin pure.result
              /\ (now - row.updated_at > CACHE_DURATION_MINUTES) => row \in pure.result

\* C22 witness: of two rows the one older than the TTL is listed, the one of
\* the age of the TTL is not
C22_Witness ==
    /\ pure.fn = "returned"
    /\ \E x, y \in store :
          /\ now - x.updated_at = CACHE_DURATION_MINUTES
          /\ x \notin pure.result
          /\ now - y.updated_at > CACHE_DURATION_MINUTES
          /\ y \in pure.result

\* C23: run_migrations comes to an end after at most 5 attempts: it returns
\* True at the first attempt that succeeds and makes no attempt after it; when
\* all 5 attempts fail it raises the error of the fifth; it never returns
\* False.
MigrationAttempts ==
    Len(pure.failures) + (IF pure.result = "True" THEN 1 ELSE 0)

C23_MigrationsSafe ==
    /\ MigrationAttempts <= max_retries
    /\ pure.result # "False"
    /\ pure.pc = "returned" =>
          /\ pure.result = "True"
          /\ pure.raised = <<>>
          /\ Len(pure.failures) = pure.attempt
          /\ pure.attempt < max_retries
    /\ pure.pc = "raised" =>
          /\ pure.result = "none"
          /\ Len(pure.failures) = max_retries
          /\ pure.raised = <<pure.failures[max_retries], max_retries>>
    /\ pure.pc \in {"attempt", "sleep"} =>
          (pure.result = "none" /\ pure.raised = <<>>)

C23_MigrationsTerminate ==
    /\ []C23_MigrationsSafe
    /\ <>(pure.pc \in {"returned", "raised"})
    /\ [][pure.pc \in {"returned", "raised"} => pure' = pure]_vars

\* C23 witness: five attempts have failed, the last otherwise than the fourth,
\* and the error raised is that of the fifth
C23_Witness ==
    /\ pure.pc = "raised"
    /\ Len(pure.failures) = 5
    /\ pure.failures[4] # pure.failures[5]
    /\ pure.raised = <<pure.failures[5], 5>>
====
